---- MODULE Spec2Model ----
(***************************************************************************)
(* Model of the payments engine: the account table and the ledger of       *)
(* TransactionProcessor, and Account::process with its five transaction    *)
(* types.  Decimal amounts are modelled as integers (an exact decimal in a *)
(* fixed unit); HashMaps are functions whose DOMAIN is the set of keys.     *)
(***************************************************************************)
EXTENDS Integers, FiniteSets, Sequences, TLC

\* ---- bounds of the model ----
MaxClient == 2
MaxTx == 2
MaxSteps == 4
\* records in the input of one bulk ingestion (at most MaxSteps)
MaxRecords == 2

Clients == 1..MaxClient
TxIds == 1..MaxTx
\* Decimal amounts of the input records: one negative amount (deposit and
\* withdrawal reject it), zero (the boundary of amount >= 0) and one positive
Amounts == {0 - 1, 0, 1}

VARIABLES
    accounts,       \* TransactionProcessor.accounts : HashMap<u16, Account>
    transactions,   \* TransactionProcessor.transactions : HashMap<u32, TransactionRecord>
    lastType,       \* the variant of the transaction most recently given to process
    result,         \* what process returned for it: "Ok" or "Err"
    step,           \* number of transactions processed so far
    everDisputed,   \* history: tx ids on which some Dispute has succeeded
    disputedSinceDeposit, \* history: tx ids with a successful Dispute after the last Deposit on them
    usedByDeposit,  \* history: tx ids some Deposit given to process has carried
    lastWorkflow,   \* history: per tx id, type of the latest successful Dispute/Resolve/Chargeback
    net,            \* history: per client, successful deposits minus successful
                    \* withdrawals minus the amounts its successful chargebacks removed
    firstResult,    \* history (SpecFirst): per client, the result of its first transaction
    everOk,         \* history (SpecFirst): clients with at least one successful transaction
    records,        \* SpecIngest: the records the csv reader yields, in file order
    pos             \* SpecIngest: how many of them the for loop has consumed

vars == <<accounts, transactions, lastType, result, step,
          everDisputed, disputedSinceDeposit, usedByDeposit, lastWorkflow,
          net, firstResult, everOk, records, pos>>

\* ---- the Transaction enum ----
Deposit(c, t, a) == [type |-> "Deposit", client |-> c, tx |-> t, amount |-> a]
Withdrawal(c, t, a) == [type |-> "Withdrawal", client |-> c, tx |-> t, amount |-> a]
Dispute(c, t) == [type |-> "Dispute", client |-> c, tx |-> t]
Resolve(c, t) == [type |-> "Resolve", client |-> c, tx |-> t]
Chargeback(c, t) == [type |-> "Chargeback", client |-> c, tx |-> t]

\* ---- the ledger entry ----
TransactionRecord(a, c, d) == [amount |-> a, client |-> c, disputed |-> d]

\* HashMap::insert: adds the key or overwrites the value stored under it
Insert(map, k, v) == [x \in (DOMAIN map) \cup {k} |-> IF x = k THEN v ELSE map[x]]

\* ---- Account ----
AccountNew(client) ==
    [client |-> client, available |-> 0, held |-> 0, locked |-> FALSE]

\* a deposit that rejects a zero amount
deposit_rejects_zero(self, amount) ==
    IF amount > 0
    THEN [result |-> "Ok", account |-> [self EXCEPT !.available = @ + amount]]
    ELSE [result |-> "Err", account |-> self]

deposit(self, amount) ==
    IF amount >= 0
    THEN [result |-> "Ok", account |-> [self EXCEPT !.available = @ + amount]]
    ELSE [result |-> "Err", account |-> self]

\* a withdrawal that does not compare the amount with the available funds
withdrawal_overdraft(self, amount) ==
    IF amount >= 0
    THEN [result |-> "Ok", account |-> [self EXCEPT !.available = @ - amount]]
    ELSE [result |-> "Err", account |-> self]

\* a withdrawal that reports success and leaves the funds where they were
withdrawal_keeps_funds(self, amount) ==
    IF amount >= 0 /\ self.available >= amount
    THEN [result |-> "Ok", account |-> self]
    ELSE [result |-> "Err", account |-> self]

withdrawal(self, amount) ==
    IF amount >= 0 /\ self.available >= amount
    THEN [result |-> "Ok", account |-> [self EXCEPT !.available = @ - amount]]
    ELSE [result |-> "Err", account |-> self]

\* a dispute that freezes the account as soon as it is opened
dispute_locks(self, amount) ==
    [self EXCEPT !.available = @ - amount, !.held = @ + amount, !.locked = TRUE]

\* a dispute that refuses to take available below zero
dispute_floor_checked(self, amount) ==
    IF self.available >= amount
    THEN [self EXCEPT !.available = @ - amount, !.held = @ + amount]
    ELSE self

dispute(self, amount) ==
    [self EXCEPT !.available = @ - amount, !.held = @ + amount]

\* a resolve that releases the held funds without returning them to available
resolve_drops_funds(self, amount) ==
    [self EXCEPT !.held = @ - amount]

resolve(self, amount) ==
    [self EXCEPT !.held = @ - amount, !.available = @ + amount]

\* a chargeback that takes the funds but forgets to lock the account
chargeback_without_lock(self, amount) ==
    [self EXCEPT !.held = @ - amount]

\* a chargeback that locks the account and leaves the held funds in it
chargeback_keeps_held(self, amount) ==
    [self EXCEPT !.locked = TRUE]

chargeback(self, amount) ==
    [self EXCEPT !.held = @ - amount, !.locked = TRUE]

\* a lookup that forgets to compare the clients
dependent_transaction_any_client(transaction, txs) ==
    IF transaction.tx \in DOMAIN txs /\ txs[transaction.tx].disputed = "Disputed"
    THEN {transaction.tx}
    ELSE {}

\* Option<&mut TransactionRecord>: the set holding the key of the entry, or {}
dependent_transaction(transaction, txs) ==
    IF transaction.tx \in DOMAIN txs
    THEN LET existing_transaction == txs[transaction.tx]
             transaction_is_disputed == existing_transaction.disputed = "Disputed"
             matching_clients == transaction.client = existing_transaction.client
         IN  IF transaction_is_disputed /\ matching_clients
             THEN {transaction.tx}
             ELSE {}
    ELSE {}

\* a ledger that records withdrawals as it records deposits
record_deposit_and_withdrawal(transaction, txs) ==
    IF transaction.type \in {"Deposit", "Withdrawal"}
    THEN Insert(txs, transaction.tx,
                TransactionRecord(transaction.amount, transaction.client, "Undisputed"))
    ELSE txs

\* a ledger that keeps the entry it already holds under the id of a Deposit
record_deposit_keep_existing(transaction, txs) ==
    IF transaction.type = "Deposit" /\ transaction.tx \notin DOMAIN txs
    THEN Insert(txs, transaction.tx,
                TransactionRecord(transaction.amount, transaction.client, "Undisputed"))
    ELSE txs

\* the ledger after the `if let Deposit` block at the head of Account::process:
\* a Deposit is recorded under its tx before anything is validated
record_deposit(transaction, txs) ==
    IF transaction.type = "Deposit"
    THEN Insert(txs, transaction.tx,
                TransactionRecord(transaction.amount, transaction.client, "Undisputed"))
    ELSE txs

\* a Dispute arm that forgets to look at the entry's disputed state
process_dispute_any_state(self, transaction, txs) ==
    IF transaction.tx \notin DOMAIN txs
    THEN [result |-> "Err", account |-> self, transactions |-> txs]
    ELSE IF txs[transaction.tx].client # transaction.client
         THEN [result |-> "Err", account |-> self, transactions |-> txs]
         ELSE [result |-> "Ok",
               account |-> [self EXCEPT !.available = @ - txs[transaction.tx].amount,
                                        !.held = @ + txs[transaction.tx].amount],
               transactions |-> [txs EXCEPT ![transaction.tx].disputed = "Disputed"]]

\* the Dispute arm of Account::process
process_dispute(self, transaction, txs) ==
    IF transaction.tx \notin DOMAIN txs
    THEN [result |-> "Err", account |-> self, transactions |-> txs]
    ELSE IF txs[transaction.tx].disputed # "Undisputed"
            \/ txs[transaction.tx].client # transaction.client
         THEN [result |-> "Err", account |-> self, transactions |-> txs]
         ELSE [result |-> "Ok",
               account |-> dispute(self, txs[transaction.tx].amount),
               transactions |-> [txs EXCEPT ![transaction.tx].disputed = "Disputed"]]

\* a Resolve arm that accepts every entry that has ever been disputed
process_resolve_once_disputed(self, transaction, txs) ==
    IF /\ transaction.tx \in DOMAIN txs
       /\ txs[transaction.tx].disputed # "Undisputed"
       /\ txs[transaction.tx].client = transaction.client
    THEN [result |-> "Ok",
          account |-> [self EXCEPT !.held = @ - txs[transaction.tx].amount,
                                   !.available = @ + txs[transaction.tx].amount],
          transactions |-> [txs EXCEPT ![transaction.tx].disputed = "Resolved"]]
    ELSE [result |-> "Err", account |-> self, transactions |-> txs]

\* the Resolve arm of Account::process
process_resolve(self, transaction, txs) ==
    LET dep == dependent_transaction(transaction, txs)
    IN  IF dep = {}
        THEN [result |-> "Err", account |-> self, transactions |-> txs]
        ELSE LET k == CHOOSE x \in dep : TRUE
             IN  [result |-> "Ok",
                  account |-> resolve(self, txs[k].amount),
                  transactions |-> [txs EXCEPT ![k].disputed = "Resolved"]]

\* a Chargeback arm that accepts a Resolved entry as well as a Disputed one
process_chargeback_after_resolve(self, transaction, txs) ==
    IF /\ transaction.tx \in DOMAIN txs
       /\ txs[transaction.tx].disputed \in {"Disputed", "Resolved"}
       /\ txs[transaction.tx].client = transaction.client
    THEN [result |-> "Ok",
          account |-> [self EXCEPT !.held = @ - txs[transaction.tx].amount,
                                   !.locked = TRUE],
          transactions |-> [txs EXCEPT ![transaction.tx].disputed = "Chargebacked"]]
    ELSE [result |-> "Err", account |-> self, transactions |-> txs]

\* the Chargeback arm of Account::process
process_chargeback(self, transaction, txs) ==
    LET dep == dependent_transaction(transaction, txs)
    IN  IF dep = {}
        THEN [result |-> "Err", account |-> self, transactions |-> txs]
        ELSE LET k == CHOOSE x \in dep : TRUE
             IN  [result |-> "Ok",
                  account |-> chargeback(self, txs[k].amount),
                  transactions |-> [txs EXCEPT ![k].disputed = "Chargebacked"]]

\* Account::process: the result, the account and the ledger it leaves
AccountProcess(self, transaction, txs0) ==
    LET txs == record_deposit(transaction, txs0)
    IN  CASE transaction.type = "Deposit" ->
                LET r == deposit(self, transaction.amount)
                IN  [result |-> r.result, account |-> r.account, transactions |-> txs]
          [] transaction.type = "Withdrawal" ->
                LET r == withdrawal(self, transaction.amount)
                IN  [result |-> r.result, account |-> r.account, transactions |-> txs]
          [] transaction.type = "Dispute" -> process_dispute(self, transaction, txs)
          [] transaction.type = "Resolve" -> process_resolve(self, transaction, txs)
          [] transaction.type = "Chargeback" -> process_chargeback(self, transaction, txs)

\* ---- TransactionProcessor ----
\* a process that stores the new account whatever the delegated call returned
commit_account_always(accts, transaction, r) ==
    [x \in (DOMAIN accts) \cup {transaction.client} |->
        IF x = transaction.client THEN r.account ELSE accts[x]]

\* a process that stores the zeroed account it constructed rather than the
\* one the delegated call left
commit_account_zeroed(accts, transaction, r) ==
    IF transaction.client \in DOMAIN accts
    THEN [accts EXCEPT ![transaction.client] = r.account]
    ELSE IF r.result = "Ok"
         THEN Insert(accts, transaction.client, AccountNew(transaction.client))
         ELSE accts

\* what TransactionProcessor::process does to the account table, given the
\* outcome r of the delegated Account::process
commit_account(accts, transaction, r) ==
    IF transaction.client \in DOMAIN accts
    THEN [accts EXCEPT ![transaction.client] = r.account]
    ELSE IF r.result = "Ok"
         THEN Insert(accts, transaction.client, r.account)
         ELSE accts

\* the account Account::process is called on
target_account(accts, transaction) ==
    IF transaction.client \in DOMAIN accts
    THEN accts[transaction.client]
    ELSE AccountNew(transaction.client)

\* history bookkeeping (not program state)
IsWorkflow(transaction) == transaction.type \in {"Dispute", "Resolve", "Chargeback"}

History(transaction, res) ==
    /\ everDisputed' =
         IF transaction.type = "Dispute" /\ res = "Ok"
         THEN everDisputed \cup {transaction.tx} ELSE everDisputed
    /\ disputedSinceDeposit' =
         IF transaction.type = "Dispute" /\ res = "Ok"
         THEN disputedSinceDeposit \cup {transaction.tx}
         ELSE IF transaction.type = "Deposit"
              THEN disputedSinceDeposit \ {transaction.tx}
              ELSE disputedSinceDeposit
    /\ usedByDeposit' =
         IF transaction.type = "Deposit"
         THEN usedByDeposit \cup {transaction.tx} ELSE usedByDeposit
    /\ lastWorkflow' =
         IF IsWorkflow(transaction) /\ res = "Ok"
         THEN [lastWorkflow EXCEPT ![transaction.tx] = transaction.type]
         ELSE lastWorkflow

\* TransactionProcessor::process(transaction); r is what the delegated
\* Account::process returned and left behind (the ledger keeps the entry a
\* Deposit inserted even when the call returns Err)
process(transaction) ==
    /\ step < MaxSteps
    /\ \E r \in {AccountProcess(target_account(accounts, transaction),
                                    transaction, transactions)} :
           /\ accounts' = commit_account(accounts, transaction, r)
           /\ transactions' = r.transactions
           /\ result' = r.result
           /\ History(transaction, r.result)
    /\ lastType' = transaction.type
    /\ step' = step + 1

\* history bookkeeping (not program state): what the transaction, if it
\* succeeded, added to or took from the funds of its client
Track(transaction) ==
    net' =
      IF result' # "Ok" THEN net
      ELSE CASE transaction.type = "Deposit" ->
                  [net EXCEPT ![transaction.client] = @ + transaction.amount]
             [] transaction.type = "Withdrawal" ->
                  [net EXCEPT ![transaction.client] = @ - transaction.amount]
             [] transaction.type = "Chargeback" ->
                  [net EXCEPT ![transaction.client] = @ - transactions[transaction.tx].amount]
             [] OTHER -> net

\* one call of process from a caller that hands over any transaction
Apply(transaction) ==
    /\ process(transaction)
    /\ Track(transaction)
    /\ UNCHANGED <<firstResult, everOk, records, pos>>

ProcessDeposit == \E c \in Clients, t \in TxIds, a \in Amounts : Apply(Deposit(c, t, a))
ProcessWithdrawal == \E c \in Clients, t \in TxIds, a \in Amounts : Apply(Withdrawal(c, t, a))
ProcessDispute == \E c \in Clients, t \in TxIds : Apply(Dispute(c, t))
ProcessResolve == \E c \in Clients, t \in TxIds : Apply(Resolve(c, t))
ProcessChargeback == \E c \in Clients, t \in TxIds : Apply(Chargeback(c, t))

\* TransactionProcessor::new; nothing has been processed yet
Init ==
    /\ accounts = <<>>
    /\ transactions = <<>>
    /\ lastType = "None"
    /\ result = "None"
    /\ step = 0
    /\ everDisputed = {}
    /\ disputedSinceDeposit = {}
    /\ usedByDeposit = {}
    /\ lastWorkflow = [t \in TxIds |-> "None"]
    /\ net = [c \in Clients |-> 0]
    /\ firstResult = [c \in Clients |-> "None"]
    /\ everOk = {}
    /\ records = << >>
    /\ pos = 0

Next ==
    \/ ProcessDeposit
    \/ ProcessWithdrawal
    \/ ProcessDispute
    \/ ProcessResolve
    \/ ProcessChargeback

Spec == Init /\ [][Next]_vars

\* ---- the same processor, with a record of each client's outcomes ----
\* history bookkeeping (not program state): the result of the first
\* transaction processed for each client, and the clients for which some
\* transaction has succeeded
Outcomes(transaction) ==
    /\ firstResult' =
         IF firstResult[transaction.client] = "None"
         THEN [firstResult EXCEPT ![transaction.client] = result']
         ELSE firstResult
    /\ everOk' =
         IF result' = "Ok" THEN everOk \cup {transaction.client} ELSE everOk

ApplyFirst(transaction) ==
    /\ process(transaction)
    /\ Track(transaction)
    /\ Outcomes(transaction)
    /\ UNCHANGED <<records, pos>>

FirstDeposit == \E c \in Clients, t \in TxIds, a \in Amounts : ApplyFirst(Deposit(c, t, a))
FirstWithdrawal == \E c \in Clients, t \in TxIds, a \in Amounts : ApplyFirst(Withdrawal(c, t, a))
FirstDispute == \E c \in Clients, t \in TxIds : ApplyFirst(Dispute(c, t))
FirstResolve == \E c \in Clients, t \in TxIds : ApplyFirst(Resolve(c, t))
FirstChargeback == \E c \in Clients, t \in TxIds : ApplyFirst(Chargeback(c, t))

NextFirst ==
    \/ FirstDeposit
    \/ FirstWithdrawal
    \/ FirstDispute
    \/ FirstResolve
    \/ FirstChargeback

SpecFirst == Init /\ [][NextFirst]_vars

\* ---- inputs made only of Deposits and Withdrawals ----
NextDepositsWithdrawals ==
    \/ ProcessDeposit
    \/ ProcessWithdrawal

SpecDepositsWithdrawals == Init /\ [][NextDepositsWithdrawals]_vars

\* ---- inputs in which no tx id is carried by more than one Deposit ----
ProcessFreshDeposit ==
    \E c \in Clients, t \in TxIds \ usedByDeposit, a \in Amounts : Apply(Deposit(c, t, a))

NextUniqueDeposits ==
    \/ ProcessFreshDeposit
    \/ ProcessWithdrawal
    \/ ProcessDispute
    \/ ProcessResolve
    \/ ProcessChargeback

SpecUniqueDeposits == Init /\ [][NextUniqueDeposits]_vars

\* ---- inputs in which every Deposit amount is >= 0 ----
ProcessNonNegativeDeposit ==
    \E c \in Clients, t \in TxIds, a \in {x \in Amounts : x >= 0} : Apply(Deposit(c, t, a))

NextNonNegativeDeposits ==
    \/ ProcessNonNegativeDeposit
    \/ ProcessWithdrawal
    \/ ProcessDispute
    \/ ProcessResolve
    \/ ProcessChargeback

SpecNonNegativeDeposits == Init /\ [][NextNonNegativeDeposits]_vars

\* ---- bulk ingestion: process_transactions over one input ----
\* Option<Decimal>: None is << >>, Some(a) is <<a>>
RawAmounts == {<< >>} \cup {<<a>> : a \in Amounts}

\* the clients the rows of an input name: the lowest and the highest
InputClients == {1, MaxClient}

\* the rows of an input: deposits and withdrawals with or without an amount,
\* disputes, resolves and chargebacks without one, and a row whose type is
\* none of the five
RawRecords ==
    [type : {"deposit", "withdrawal"}, client : InputClients, tx : TxIds, amount : RawAmounts]
      \cup [type : {"dispute", "resolve", "chargeback"}, client : InputClients, tx : TxIds,
            amount : {<< >>}]
      \cup {[type |-> "junk", client |-> 1, tx |-> 1, amount |-> << >>]}

Inputs == UNION {[1..n -> RawRecords] : n \in 0..MaxRecords}

\* TryFrom<IntermediateTransaction> for Transaction, after the derived
\* Deserialize of the row, which fails on a type that is not one of Type
try_from(value) ==
    CASE value.type = "deposit" ->
            IF value.amount = << >> THEN [ok |-> FALSE]
            ELSE [ok |-> TRUE, value |-> Deposit(value.client, value.tx, value.amount[1])]
      [] value.type = "withdrawal" ->
            IF value.amount = << >> THEN [ok |-> FALSE]
            ELSE [ok |-> TRUE, value |-> Withdrawal(value.client, value.tx, value.amount[1])]
      [] value.type = "dispute" -> [ok |-> TRUE, value |-> Dispute(value.client, value.tx)]
      [] value.type = "resolve" -> [ok |-> TRUE, value |-> Resolve(value.client, value.tx)]
      [] value.type = "chargeback" -> [ok |-> TRUE, value |-> Chargeback(value.client, value.tx)]
      [] OTHER -> [ok |-> FALSE]

\* a loop that gives up the rest of the input when process returns Err
next_position_abort(p, res, n) == IF res = "Err" THEN n ELSE p + 1

\* the for loop of process_transactions: the result of process is dropped and
\* the iterator moves to the next row (p rows read of n, res the result)
next_position(p, res, n) == p + 1

\* the next row parses: the loop body runs process on it
IngestRecord ==
    /\ pos < Len(records)
    /\ try_from(records[pos + 1]).ok
    /\ process(try_from(records[pos + 1]).value)
    /\ Track(try_from(records[pos + 1]).value)
    /\ pos' = next_position(pos, result', Len(records))
    /\ UNCHANGED <<firstResult, everOk, records>>

\* the next row does not parse: flatten() drops it before the loop body
SkipRecord ==
    /\ pos < Len(records)
    /\ ~try_from(records[pos + 1]).ok
    /\ pos' = pos + 1
    /\ UNCHANGED <<accounts, transactions, lastType, result, step, everDisputed,
                   disputedSinceDeposit, usedByDeposit, lastWorkflow, net, firstResult, everOk, records>>

\* TransactionProcessor::new, and an input about to be read
InitIngest ==
    /\ accounts = << >>
    /\ transactions = << >>
    /\ lastType = "None"
    /\ result = "None"
    /\ step = 0
    /\ everDisputed = {}
    /\ disputedSinceDeposit = {}
    /\ usedByDeposit = {}
    /\ lastWorkflow = [t \in TxIds |-> "None"]
    /\ net = [c \in Clients |-> 0]
    /\ firstResult = [c \in Clients |-> "None"]
    /\ everOk = {}
    /\ records \in Inputs
    /\ pos = 0

NextIngest ==
    \/ IngestRecord
    \/ SkipRecord

SpecIngest == InitIngest /\ [][NextIngest]_vars

\* the loop is sequential code that nothing suspends: while a row is left, the
\* next iteration runs
FairSpecIngest == SpecIngest /\ WF_vars(NextIngest)

\* ---- vocabulary of the properties ----
\* this step is process(transaction); process sets lastType' to the variant, so
\* the first conjunct only spares the evaluation of process on other steps
Step(transaction) == lastType' = transaction.type /\ process(transaction)

\* the account a transaction of client c acts on: the stored one, or a zeroed one
AccountBefore(c) ==
    IF c \in DOMAIN accounts
    THEN accounts[c]
    ELSE [client |-> c, available |-> 0, held |-> 0, locked |-> FALSE]

HasEntry(c, t, state) ==
    /\ t \in DOMAIN transactions
    /\ transactions[t].client = c
    /\ transactions[t].disputed = state

\* C1: Dispute(client, tx) succeeds iff the ledger holds an Undisputed entry
\* for tx stored under the same client; on success available falls and held
\* rises by the entry's amount (no floor check on available), locked is
\* unchanged and the entry becomes Disputed.
C1_DisputeContract ==
    [][\A c \in Clients, t \in TxIds :
         Step(Dispute(c, t)) =>
            /\ (result' = "Ok") <=> HasEntry(c, t, "Undisputed")
            /\ (result' = "Ok") =>
                  /\ c \in DOMAIN accounts'
                  /\ accounts'[c].available =
                        AccountBefore(c).available - transactions[t].amount
                  /\ accounts'[c].held = AccountBefore(c).held + transactions[t].amount
                  /\ accounts'[c].locked = AccountBefore(c).locked
                  /\ transactions'[t].disputed = "Disputed"]_vars

\* a Dispute has just succeeded for more than the account had available
C1_Witness ==
    /\ lastType = "Dispute" /\ result = "Ok"
    /\ \E c \in DOMAIN accounts, t \in DOMAIN transactions :
          /\ transactions[t].client = c
          /\ transactions[t].disputed = "Disputed"
          /\ transactions[t].amount > 0
          /\ accounts[c].held = transactions[t].amount
          /\ accounts[c].available < 0

\* C2: Resolve(client, tx) succeeds iff the ledger holds a Disputed entry for
\* tx stored under the same client; on success held falls and available rises
\* by the entry's amount, locked is unchanged and the entry becomes Resolved.
C2_ResolveContract ==
    [][\A c \in Clients, t \in TxIds :
         Step(Resolve(c, t)) =>
            /\ (result' = "Ok") <=> HasEntry(c, t, "Disputed")
            /\ (result' = "Ok") =>
                  /\ c \in DOMAIN accounts'
                  /\ accounts'[c].held = AccountBefore(c).held - transactions[t].amount
                  /\ accounts'[c].available =
                        AccountBefore(c).available + transactions[t].amount
                  /\ accounts'[c].locked = AccountBefore(c).locked
                  /\ transactions'[t].disputed = "Resolved"]_vars

\* a Resolve has just succeeded and given a positive amount back
C2_Witness ==
    /\ lastType = "Resolve" /\ result = "Ok"
    /\ \E c \in DOMAIN accounts, t \in DOMAIN transactions :
          /\ transactions[t].client = c
          /\ transactions[t].disputed = "Resolved"
          /\ transactions[t].amount > 0
          /\ accounts[c].available = transactions[t].amount
          /\ accounts[c].held = 0

\* C3: Chargeback(client, tx) succeeds iff the ledger holds a Disputed entry
\* for tx stored under the same client; on success held falls by the entry's
\* amount, available is unchanged, locked becomes true and the entry becomes
\* Chargebacked.
C3_ChargebackContract ==
    [][\A c \in Clients, t \in TxIds :
         Step(Chargeback(c, t)) =>
            /\ (result' = "Ok") <=> HasEntry(c, t, "Disputed")
            /\ (result' = "Ok") =>
                  /\ c \in DOMAIN accounts'
                  /\ accounts'[c].held = AccountBefore(c).held - transactions[t].amount
                  /\ accounts'[c].available = AccountBefore(c).available
                  /\ accounts'[c].locked = TRUE
                  /\ transactions'[t].disputed = "Chargebacked"]_vars

\* a Chargeback has just succeeded and removed a positive amount
C3_Witness ==
    /\ lastType = "Chargeback" /\ result = "Ok"
    /\ \E c \in DOMAIN accounts, t \in DOMAIN transactions :
          /\ transactions[t].client = c
          /\ transactions[t].disputed = "Chargebacked"
          /\ transactions[t].amount > 0
          /\ accounts[c].locked
          /\ accounts[c].held = 0

\* ---- the dispute workflow over a sequence of transactions ----
WorkflowOk(c, t) ==
    /\ result' = "Ok"
    /\ \/ Step(Dispute(c, t))
       \/ Step(Resolve(c, t))
       \/ Step(Chargeback(c, t))

\* C4 as stated: once a Dispute on tx has succeeded, no later Dispute on tx
\* succeeds, whatever client it names and whatever was processed in between.
C4_DisputedAtMostOnce ==
    [][\A c \in Clients, t \in TxIds :
         (result' = "Ok" /\ Step(Dispute(c, t))) => t \notin everDisputed]_vars

\* C4 amended: once a Dispute on tx has succeeded, every later Dispute on tx
\* fails, whatever client it names, until a Deposit carrying the same tx id is
\* processed (which replaces the ledger entry by a fresh Undisputed one).
C4_DisputedOncePerDeposit ==
    [][\A c \in Clients, t \in TxIds :
         (result' = "Ok" /\ Step(Dispute(c, t))) => t \notin disputedSinceDeposit]_vars

\* a Dispute has just failed while an entry disputed earlier is still Disputed
C4_Witness ==
    /\ lastType = "Dispute" /\ result = "Err"
    /\ \E t \in disputedSinceDeposit :
          t \in DOMAIN transactions /\ transactions[t].disputed = "Disputed"

\* C5: a Resolve or Chargeback on tx succeeds only if the latest successful
\* dispute-workflow transaction on tx before it is a Dispute (a successful
\* Dispute precedes it, with no successful Resolve or Chargeback in between).
C5_ResolveChargebackNeedOpenDispute ==
    [][\A c \in Clients, t \in TxIds :
         (result' = "Ok" /\ (Step(Resolve(c, t)) \/ Step(Chargeback(c, t))))
            => lastWorkflow[t] = "Dispute"]_vars

\* a Resolve or Chargeback has just been refused on an id whose dispute was
\* already closed by a Resolve or Chargeback
C5_Witness ==
    /\ lastType \in {"Resolve", "Chargeback"} /\ result = "Err"
    /\ \A t \in TxIds : lastWorkflow[t] \in {"None", "Resolve", "Chargeback"}
    /\ \E t \in TxIds : lastWorkflow[t] \in {"Resolve", "Chargeback"}
    /\ \A t \in DOMAIN transactions : transactions[t].disputed # "Undisputed"

\* ---- the lifecycle of a ledger entry ----
Edge(from, to, type) ==
    \/ from = "Undisputed" /\ to = "Disputed" /\ type = "Dispute"
    \/ from = "Disputed" /\ to = "Resolved" /\ type = "Resolve"
    \/ from = "Disputed" /\ to = "Chargebacked" /\ type = "Chargeback"

Terminal(t) == transactions[t].disputed \in {"Resolved", "Chargebacked"}

\* C6 as stated: the disputeState of a stored entry changes only along the three
\* edges and only through the matching dispute-workflow transaction; a Resolved
\* or Chargebacked entry never changes again and no Dispute, Resolve or
\* Chargeback against its id succeeds.
C6_LifecycleEdgesOnly ==
    [][\A t \in DOMAIN transactions :
         /\ t \in DOMAIN transactions'
         /\ transactions'[t].disputed # transactions[t].disputed =>
               Edge(transactions[t].disputed, transactions'[t].disputed, lastType')
         /\ Terminal(t) =>
               /\ transactions'[t] = transactions[t]
               /\ \A c \in Clients : ~WorkflowOk(c, t)]_vars

\* C6 amended: an entry is never deleted; a Dispute, Resolve or Chargeback
\* changes an entry's disputeState only along the three edges and leaves its
\* amount and client alone; against a Resolved or Chargebacked entry no
\* Dispute, Resolve or Chargeback succeeds and none changes it; the only other
\* change is a Deposit carrying the same id, which replaces the entry, whatever
\* its state, by a fresh Undisputed one.
C6_LifecycleEdgesOrRedeposit ==
    [][\A t \in DOMAIN transactions :
         /\ t \in DOMAIN transactions'
         /\ transactions'[t] # transactions[t] =>
               \/ /\ lastType' = "Deposit"
                  /\ transactions'[t].disputed = "Undisputed"
               \/ /\ result' = "Ok"
                  /\ Edge(transactions[t].disputed, transactions'[t].disputed, lastType')
                  /\ transactions'[t].amount = transactions[t].amount
                  /\ transactions'[t].client = transactions[t].client
         /\ Terminal(t) => \A c \in Clients : ~WorkflowOk(c, t)
         /\ (Terminal(t) /\ lastType' # "Deposit") => transactions'[t] = transactions[t]]_vars

\* a dispute-workflow transaction has just been refused while every stored
\* entry is Resolved or Chargebacked
C6_Witness ==
    /\ lastType \in {"Dispute", "Resolve", "Chargeback"} /\ result = "Err"
    /\ transactions # << >>
    /\ \A t \in DOMAIN transactions : Terminal(t)

\* ---- failures ----
\* C7: a Deposit or Withdrawal rejected for an invalid amount leaves the
\* account table and the ledger exactly as they were.
C7_RejectedAmountHasNoEffect ==
    [][\A c \in Clients, t \in TxIds, a \in Amounts :
         (result' = "Err" /\ (Step(Deposit(c, t, a)) \/ Step(Withdrawal(c, t, a))))
            => (accounts' = accounts /\ transactions' = transactions)]_vars

\* C8: a Dispute, Resolve or Chargeback that fails leaves the account table
\* (its keys and every available, held and locked) and every ledger entry
\* unchanged.
C8_FailedWorkflowHasNoEffect ==
    [][\A c \in Clients, t \in TxIds :
         (result' = "Err"
             /\ (Step(Dispute(c, t)) \/ Step(Resolve(c, t)) \/ Step(Chargeback(c, t))))
            => (accounts' = accounts /\ transactions' = transactions)]_vars

\* a dispute-workflow transaction has just failed with a ledger entry stored
\* and a client still without an account
C8_Witness ==
    /\ lastType \in {"Dispute", "Resolve", "Chargeback"} /\ result = "Err"
    /\ transactions # << >>
    /\ accounts # << >>
    /\ DOMAIN accounts # Clients

\* ---- the locked flag ----
\* C9: locked is false when an account enters the table, turns true only in a
\* successful Chargeback naming that client, and once true stays true.
C9_LockedMonotonic ==
    [][\A c \in Clients :
         /\ (c \notin DOMAIN accounts /\ c \in DOMAIN accounts') => ~accounts'[c].locked
         /\ (c \in DOMAIN accounts /\ ~accounts[c].locked
                /\ c \in DOMAIN accounts' /\ accounts'[c].locked) =>
               /\ result' = "Ok"
               /\ \E t \in TxIds : Step(Chargeback(c, t))
         /\ (c \in DOMAIN accounts /\ accounts[c].locked) =>
               (c \in DOMAIN accounts' /\ accounts'[c].locked)]_vars

\* a locked account is still locked after a later transaction succeeded
C9_Witness ==
    /\ lastType \in {"Deposit", "Withdrawal"} /\ result = "Ok"
    /\ \E c \in DOMAIN accounts : accounts[c].locked /\ accounts[c].available > 0

\* C10: once an account is locked, no later transaction of any type changes
\* its available, held or locked.
C10_LockedAccountFrozen ==
    [][\A c \in DOMAIN accounts :
         accounts[c].locked =>
            /\ c \in DOMAIN accounts'
            /\ accounts'[c].available = accounts[c].available
            /\ accounts'[c].held = accounts[c].held
            /\ accounts'[c].locked = accounts[c].locked]_vars

\* ---- deposits and withdrawals ----
\* the account table holds for client c what a transaction naming c and
\* ending in Err leaves: the stored account as it was, or still no account
AccountUntouched(c) ==
    IF c \in DOMAIN accounts
    THEN c \in DOMAIN accounts' /\ accounts'[c] = accounts[c]
    ELSE c \notin DOMAIN accounts'

\* this step is process(Deposit(c, t, a)); Account::process leaves the ledger
\* record_deposit gives, so the first conjunct only spares the evaluation of
\* process for the deposits that would have left another ledger
DepositStep(c, t, a) ==
    /\ transactions' = record_deposit(Deposit(c, t, a), transactions)
    /\ Step(Deposit(c, t, a))

\* "post holds whenever the step is taken", with post looked at first
Whenever(taken, post) == post \/ ~taken

\* C11: Deposit(client, tx, amount) succeeds iff amount >= 0; on success
\* available rises by exactly amount and held and locked are unchanged; on
\* failure available, held and locked are unchanged.
C11_DepositContract ==
    [][\A c \in Clients, t \in TxIds, a \in Amounts :
         lastType' = "Deposit" =>
         Whenever(DepositStep(c, t, a),
            /\ (result' = "Ok") <=> (a >= 0)
            /\ (result' = "Ok") =>
                  /\ c \in DOMAIN accounts'
                  /\ accounts'[c].available = AccountBefore(c).available + a
                  /\ accounts'[c].held = AccountBefore(c).held
                  /\ accounts'[c].locked = AccountBefore(c).locked
            /\ (result' = "Err") => AccountUntouched(c))]_vars

\* a Deposit of amount zero has just succeeded as the first transaction
C11_Witness ==
    /\ step = 1 /\ lastType = "Deposit" /\ result = "Ok"
    /\ \E c \in DOMAIN accounts, t \in DOMAIN transactions :
          /\ transactions[t].client = c
          /\ transactions[t].amount = 0
          /\ accounts[c].available = 0

\* C12: Withdrawal(client, tx, amount) succeeds iff amount >= 0 and
\* available >= amount; on success available falls by exactly amount, so it
\* is >= 0 afterwards, and held and locked are unchanged; on failure the
\* account is unchanged.
C12_WithdrawalContract ==
    [][\A c \in Clients, a \in Amounts :
         lastType' = "Withdrawal" =>
         Whenever(\E t \in TxIds : Step(Withdrawal(c, t, a)),
            /\ (result' = "Ok") <=> (a >= 0 /\ AccountBefore(c).available >= a)
            /\ (result' = "Ok") =>
                  /\ c \in DOMAIN accounts'
                  /\ accounts'[c].available = AccountBefore(c).available - a
                  /\ accounts'[c].available >= 0
                  /\ accounts'[c].held = AccountBefore(c).held
                  /\ accounts'[c].locked = AccountBefore(c).locked
            /\ (result' = "Err") => AccountUntouched(c))]_vars

\* the second transaction, a Withdrawal, has just succeeded and taken the
\* whole deposit of the first
C12_Witness ==
    /\ step = 2 /\ lastType = "Withdrawal" /\ result = "Ok"
    /\ \E c \in DOMAIN accounts, t \in DOMAIN transactions :
          /\ transactions[t].client = c
          /\ transactions[t].amount = 1
          /\ accounts[c].available = 0
          /\ net[c] = 0

\* the transactions of variant type a caller can hand over for client c
TransactionsOf(type, c) ==
    CASE type = "Deposit" -> {Deposit(c, t, a) : t \in TxIds, a \in Amounts}
      [] type = "Withdrawal" -> {Withdrawal(c, t, a) : t \in TxIds, a \in Amounts}
      [] type = "Dispute" -> {Dispute(c, t) : t \in TxIds}
      [] type = "Resolve" -> {Resolve(c, t) : t \in TxIds}
      [] type = "Chargeback" -> {Chargeback(c, t) : t \in TxIds}
      [] OTHER -> {}

\* a zeroed account of the transaction's client with that one transaction
\* applied, given that the transaction succeeded; amt is the amount of the
\* ledger entry a Dispute, Resolve or Chargeback names (without an entry such
\* a transaction fails, and amt stands for nothing)
FreshWith(transaction) ==
    LET c == transaction.client
        amt == IF transaction.tx \in DOMAIN transactions
               THEN transactions[transaction.tx].amount ELSE 0
    IN  CASE transaction.type = "Deposit" ->
               [client |-> c, available |-> transaction.amount, held |-> 0, locked |-> FALSE]
          [] transaction.type = "Withdrawal" ->
               [client |-> c, available |-> 0 - transaction.amount, held |-> 0, locked |-> FALSE]
          [] transaction.type = "Dispute" ->
               [client |-> c, available |-> 0 - amt, held |-> amt, locked |-> FALSE]
          [] transaction.type = "Resolve" ->
               [client |-> c, available |-> amt, held |-> 0 - amt, locked |-> FALSE]
          [] transaction.type = "Chargeback" ->
               [client |-> c, available |-> 0, held |-> 0 - amt, locked |-> TRUE]

\* this step is process(transaction); the first conjunct, which process
\* implies (it leaves every ledger entry but the one under transaction.tx as it
\* was, and that one with its amount and client unless the transaction is a
\* Deposit), only spares the evaluation of process on other steps
LedgerStep(transaction) ==
    /\ \/ transactions' = record_deposit(transaction, transactions)
       \/ /\ IsWorkflow(transaction)
          /\ transaction.tx \in DOMAIN transactions
          /\ transactions' = [transactions EXCEPT ![transaction.tx].disputed =
                                                   transactions'[transaction.tx].disputed]
    /\ Step(transaction)

\* C13: when process receives a transaction whose client has no account, the
\* client gets an account iff the transaction succeeds; on failure the account
\* table is exactly as before, and on success the table gains one account, the
\* zeroed account of that client with that one transaction applied
C13_NewAccountIffOk ==
    [][\A c \in Clients \ DOMAIN accounts : \A transaction \in TransactionsOf(lastType', c) :
         Whenever(LedgerStep(transaction),
            /\ (c \in DOMAIN accounts') <=> (result' = "Ok")
            /\ (result' = "Err") => accounts' = accounts
            /\ (result' = "Ok") =>
                  accounts' = Insert(accounts, c, FreshWith(transaction)))]_vars

\* the second transaction, a Dispute of a rejected Deposit of -1, was the
\* first to succeed for its client and has created the account: a zeroed
\* account with the entry's amount moved from available to held
C13_Witness ==
    /\ step = 2 /\ lastType = "Dispute" /\ result = "Ok"
    /\ \E c \in Clients :
          /\ DOMAIN accounts = {c}
          /\ accounts[c] = [client |-> c, available |-> 1, held |-> 0 - 1, locked |-> FALSE]

\* C14 (as stated): a client is in the account table only if the very first
\* transaction processed for that client succeeded
C14_FirstMustSucceed ==
    \A c \in DOMAIN accounts : firstResult[c] = "Ok"

\* C14 (amended): a client is in the account table if and only if at least one
\* transaction processed for that client has succeeded, whether or not it was
\* the client's first
C14_AppearsIffSomeSucceeded ==
    DOMAIN accounts = everOk

\* a client whose first transaction failed has an account all the same
C14_Witness ==
    \E c \in DOMAIN accounts : firstResult[c] = "Err" /\ c \in everOk

\* the transactions that reach process from the rows, in the order of the rows
RECURSIVE Parsed(_)
Parsed(rows) ==
    IF rows = << >> THEN << >>
    ELSE (IF try_from(Head(rows)).ok THEN <<try_from(Head(rows)).value>> ELSE << >>)
           \o Parsed(Tail(rows))

\* the account table and ledger process leaves when applied to one transaction
Applied(state, transaction) ==
    LET r == AccountProcess(target_account(state.accounts, transaction),
                            transaction, state.transactions)
    IN  [accounts |-> commit_account(state.accounts, transaction, r),
         transactions |-> r.transactions]

\* ... and to a sequence of transactions, one after another
RECURSIVE AppliedAll(_, _)
AppliedAll(state, txs) ==
    IF txs = << >> THEN state
    ELSE AppliedAll(Applied(state, Head(txs)), Tail(txs))

EmptyState == [accounts |-> << >>, transactions |-> << >>]

\* after pos rows, process has run once per parsed row among them, and the
\* state is that of applying those transactions in row order from the empty state
InOrderSoFar ==
    /\ step = Len(Parsed(SubSeq(records, 1, pos)))
    /\ [accounts |-> accounts, transactions |-> transactions]
         = AppliedAll(EmptyState, Parsed(SubSeq(records, 1, pos)))

\* C15: bulk ingestion never aborts on a failing record: at every point process
\* has been applied exactly once to each parsed row read so far, in input
\* order, and ingestion reaches the end of the input, where the state is that
\* of applying all parsed rows one after another from the empty state
C15_IngestsAllInOrder ==
    /\ []InOrderSoFar
    /\ <>(pos = Len(records) /\ InOrderSoFar)

\* ingestion is at the end of an input whose first row, a deposit of -1, was
\* rejected by process and whose second row, a deposit, succeeded
C15_Witness ==
    /\ pos = Len(records) /\ pos = 2 /\ step = 2
    /\ records[1].type = "deposit" /\ records[1].amount = <<0 - 1>>
    /\ records[2].type = "deposit"
    /\ result = "Ok"
    /\ accounts # << >>

\* C16: after any sequence made only of Deposits and Withdrawals, the available
\* of each client that has an account is the sum of its successful deposit
\* amounts minus the sum of its successful withdrawal amounts (net), its held
\* is 0, and for a client without an account that sum is 0
C16_AvailableIsNetOfDepositsAndWithdrawals ==
    \A c \in Clients :
        IF c \in DOMAIN accounts
        THEN accounts[c].available = net[c] /\ accounts[c].held = 0
        ELSE net[c] = 0

\* two deposits of 1 and a withdrawal of 1 of one client have succeeded
C16_Witness ==
    /\ step = 3 /\ lastType = "Withdrawal" /\ result = "Ok"
    /\ \E c \in DOMAIN accounts :
          /\ accounts[c].available = 1
          /\ \E t1, t2 \in DOMAIN transactions :
                /\ t1 # t2
                /\ transactions[t1] = TransactionRecord(1, c, "Undisputed")
                /\ transactions[t2] = TransactionRecord(1, c, "Undisputed")

\* the Disputes, Resolves and Chargebacks a caller can hand over on tx id t
WorkflowsOn(type, t) ==
    CASE type = "Dispute" -> {Dispute(c, t) : c \in Clients}
      [] type = "Resolve" -> {Resolve(c, t) : c \in Clients}
      [] type = "Chargeback" -> {Chargeback(c, t) : c \in Clients}
      [] OTHER -> {}

\* C17: a Withdrawal, whether it succeeds or fails, leaves the ledger exactly
\* as it was; and a Dispute, Resolve or Chargeback on a tx id that no Deposit
\* has carried (whatever Withdrawals carried it) fails
C17_WithdrawalsLeaveNoEntry ==
    [][/\ lastType' = "Withdrawal" => transactions' = transactions
       /\ \A t \in TxIds \ usedByDeposit : \A transaction \in WorkflowsOn(lastType', t) :
             Whenever(Step(transaction), result' = "Err")]_vars

\* a Withdrawal of 0 has created an account without leaving a ledger entry,
\* and the Dispute, Resolve or Chargeback that followed it has failed
C17_Witness ==
    /\ step = 2 /\ lastType \in {"Dispute", "Resolve", "Chargeback"} /\ result = "Err"
    /\ accounts # << >>
    /\ transactions = << >>
    /\ usedByDeposit = {}

\* this step is process(Deposit(c, t, a)); the first conjuncts, which process
\* implies (a deposit succeeds iff its amount is not negative and then adds the
\* amount to available), only spare the evaluation of process on other steps
DepositStepOf(c, t, a) ==
    /\ (result' = "Ok") <=> (a >= 0)
    /\ (result' = "Ok") =>
          /\ c \in DOMAIN accounts'
          /\ accounts'[c].available = AccountBefore(c).available + a
    /\ Step(Deposit(c, t, a))

\* C18: every process(Deposit(client, tx, amount)) leaves the ledger entry
\* under tx equal to {amount, client, Undisputed}, whatever the amount, the
\* result, the account table and the entry stored under tx before, and leaves
\* every other ledger entry as it was
C18_DepositAlwaysRecorded ==
    [][\A c \in Clients, t \in TxIds, a \in Amounts :
         lastType' = "Deposit" =>
         Whenever(DepositStepOf(c, t, a),
            /\ DOMAIN transactions' = DOMAIN transactions \cup {t}
            /\ transactions'[t] = TransactionRecord(a, c, "Undisputed")
            /\ \A k \in DOMAIN transactions \ {t} : transactions'[k] = transactions[k])]_vars

\* a rejected Deposit of a client that has no account has replaced the entry
\* another client had under the same tx, an entry that had been disputed
C18_Witness ==
    /\ lastType = "Deposit" /\ result = "Err"
    /\ \E t \in DOMAIN transactions :
          /\ transactions[t].disputed = "Undisputed"
          /\ transactions[t].amount = 0 - 1
          /\ transactions[t].client \notin DOMAIN accounts
          /\ t \in disputedSinceDeposit \cup everDisputed
          /\ lastWorkflow[t] = "Dispute"

\* available + held of an account
Total(account) == account.available + account.held

\* C19: after every step, available + held of every account in the table is
\* the sum of its client's successful deposit amounts, minus its successful
\* withdrawal amounts, minus the amounts its successful Chargebacks removed
\* (net); and a Dispute or a Resolve leaves available + held of every account
\* as it was (0 for the account it creates)
C19_FundsConserved ==
    [][/\ \A c \in DOMAIN accounts' : Total(accounts'[c]) = net'[c]
       /\ lastType' \in {"Dispute", "Resolve"} =>
             \A c \in DOMAIN accounts' : Total(accounts'[c]) = Total(AccountBefore(c))]_vars

\* of two deposits of 1 one was disputed and charged back: the account is
\* locked with the other deposit left
C19_Witness ==
    /\ lastType = "Chargeback" /\ result = "Ok"
    /\ \E c \in DOMAIN accounts :
          /\ accounts[c] = [client |-> c, available |-> 1, held |-> 0, locked |-> TRUE]
          /\ net[c] = 1
          /\ \E t \in DOMAIN transactions :
                transactions[t] = TransactionRecord(1, c, "Chargebacked")

\* the tx ids of the ledger entries of client c that are under dispute
OpenDisputes(c) ==
    {t \in DOMAIN transactions :
        transactions[t].client = c /\ transactions[t].disputed = "Disputed"}

\* the sum of the amounts of the ledger entries under the tx ids in S
RECURSIVE SumOfAmounts(_)
SumOfAmounts(S) ==
    IF S = {} THEN 0
    ELSE LET t == CHOOSE x \in S : TRUE
         IN  transactions[t].amount + SumOfAmounts(S \ {t})

\* C20: when no tx id is carried by more than one Deposit, in every reachable
\* state the held of each account is the sum of the amounts of the ledger
\* entries of its client that are Disputed, and a client without an account
\* has no Disputed entry
C20_HeldIsSumOfOpenDisputes ==
    \A c \in Clients :
        IF c \in DOMAIN accounts
        THEN accounts[c].held = SumOfAmounts(OpenDisputes(c))
        ELSE OpenDisputes(c) = {}

\* one client has two deposits of 1 under dispute and holds 2
C20_Witness ==
    \E c \in DOMAIN accounts :
        /\ accounts[c].held = 2
        /\ \E t1, t2 \in OpenDisputes(c) :
              t1 # t2 /\ transactions[t1].amount = 1 /\ transactions[t2].amount = 1

\* C21: when every Deposit amount is >= 0, held of every account is >= 0 in
\* every reachable state, also when a tx id is carried by several Deposits, of
\* one client or of different clients
C21_HeldNeverNegative ==
    \A c \in DOMAIN accounts : accounts[c].held >= 0

\* a client holds 1 for a dispute whose entry a Deposit of another client has
\* since replaced under the same tx id
C21_Witness ==
    /\ lastType = "Deposit"
    /\ \E c \in DOMAIN accounts, t \in everDisputed :
          /\ accounts[c].held = 1
          /\ OpenDisputes(c) = {}
          /\ transactions[t].client # c
          /\ \A k \in DOMAIN transactions \ {t} : transactions[k].client # c

\* C22: a process step on a transaction that names client c leaves every
\* account but the one stored under c as it was and adds no account under
\* another key; every account stored under key k has client field k; and a
\* Dispute, Resolve or Chargeback that succeeds was handed over by the stored
\* client of the ledger entry, so the one account that can change is that
\* client's
C22_ClientIsolation ==
    [][/\ \A k \in DOMAIN accounts' : accounts'[k].client = k
       /\ \A c \in Clients :
             Whenever(\E transaction \in TransactionsOf(lastType', c) : LedgerStep(transaction),
                      \A d \in Clients \ {c} : AccountUntouched(d))
       /\ (result' = "Ok") =>
             \A t \in TxIds : \A transaction \in WorkflowsOn(lastType', t) :
                 Whenever(LedgerStep(transaction),
                          /\ t \in DOMAIN transactions
                          /\ transactions[t].client = transaction.client)]_vars

\* a Dispute of one client has moved 1 from its available to its held while
\* the account of another client, with a deposit of 1, stayed as it was
C22_Witness ==
    /\ step = 3 /\ lastType = "Dispute" /\ result = "Ok"
    /\ \E c, d \in DOMAIN accounts :
          /\ c # d
          /\ accounts[c] = [client |-> c, available |-> 0, held |-> 1, locked |-> FALSE]
          /\ accounts[d] = [client |-> d, available |-> 1, held |-> 0, locked |-> FALSE]

====
